---- MODULE Spec2Model ----
(***************************************************************************)
(* S3_DEMO/main.py: class S3Helper (nine thin wrappers around the S3       *)
(* client) and the __main__ script that calls them in sequence.            *)
(*                                                                         *)
(* Text (bucket names, keys, paths, regions) is a sequence of one-character*)
(* strings, file and object content a sequence of bytes.  The S3 client and*)
(* the local file system are the environment: the s3_* and open_wb         *)
(* operators give what a call at that line of main.py can do to them.      *)
(***************************************************************************)
EXTENDS Integers, Sequences, FiniteSets, TLC

VARIABLES store, files, last, pc, calls

vars == <<store, files, last, pc, calls>>

----------------------------------------------------------------------------
(* Bounds of the model. *)

MaxNameLen == 1
MaxPathLen == 3
MaxBytes == 2
\* The account's bucket quota.
MaxBuckets == 1

----------------------------------------------------------------------------
(* Values. *)

Strs(S, lo, hi) == UNION {[1..n -> S] : n \in lo..hi}

\* Python's None and a value that is not None.
None == <<>>
Some(x) == <<x>>

\* What a wrapper returns: True, False, or nothing (None).
PyTrue == "True"
PyFalse == "False"
PyNone == "None"

NameChars == {"b", "\""}
PathChars == {"f", "/"}
ByteVals == {0, 1}

BucketNames == Strs(NameChars, 1, MaxNameLen)
Paths == Strs(PathChars, 0, MaxPathLen)
Contents == Strs(ByteVals, 0, MaxBytes)

\* The literals of the __main__ script.
main_bucket_name == <<"t", "e", "s", "t", "i", "n", "g", "-", "b", "u", "c", "k", "e", "t", "-", "u", "n", "i", "s", "i", "n", "o", "s">>
main_region == <<"s", "a", "-", "e", "a", "s", "t", "-", "1">>
main_file == <<"t", "e", "s", "t", "_", "f", "i", "l", "e", ".", "t", "x", "t">>
main_download_path == <<"d", "o", "w", "n", "l", "o", "a", "d", "e", "d", "_", "t", "e", "s", "t", "_", "f", "i", "l", "e", ".", "t", "x", "t">>

RECURSIVE SetToSeq(_)
SetToSeq(S) ==
    IF S = {} THEN <<>>
    ELSE LET x == CHOOSE y \in S : TRUE IN <<x>> \o SetToSeq(S \ {x})

----------------------------------------------------------------------------
(* The environment seen through the client: what the service may answer.   *)
(* fault is what goes wrong outside the request's own meaning: "client" a  *)
(* client error (denied, throttled), "other" an exception that is not a    *)
(* ClientError (no connection, bad parameter), "none" nothing.             *)

Faults == {"none", "client", "other"}

Outcome(fault, rejected) ==
    IF fault = "other" THEN "Other"
    ELSE IF fault = "client" \/ rejected THEN "ClientError"
    ELSE "ok"

NewBucket == [objs |-> <<>>, policy |-> None]

\* self.s3_client.create_bucket(Bucket=..., [CreateBucketConfiguration=...])
\* A name that is taken, or one bucket more than the account's quota, is a
\* client error.
s3_create_bucket(st, Bucket, fault) ==
    LET sdk == Outcome(fault, Bucket \in DOMAIN st
                              \/ Cardinality(DOMAIN st) >= MaxBuckets)
    IN [sdk |-> sdk,
        store |-> IF sdk = "ok" THEN (Bucket :> NewBucket) @@ st ELSE st]

\* self.s3_client.list_buckets()
s3_list_buckets(st, fault) ==
    LET sdk == Outcome(fault, FALSE)
        names == SetToSeq(DOMAIN st)
    IN [sdk |-> sdk, store |-> st,
        response |-> [Buckets |-> [i \in DOMAIN names |-> [Name |-> names[i]]]]]

\* self.s3_client.delete_bucket(Bucket=...)
s3_delete_bucket(st, Bucket, fault) ==
    LET sdk == Outcome(fault, Bucket \notin DOMAIN st
                              \/ (Bucket \in DOMAIN st /\ DOMAIN st[Bucket].objs # {}))
    IN [sdk |-> sdk,
        store |-> IF sdk = "ok"
                  THEN [b \in DOMAIN st \ {Bucket} |-> st[b]] ELSE st]

\* self.s3_client.upload_file(file_path, bucket_name, object_name): reads the
\* local file and puts it under the key.
s3_upload_file(st, fs, Filename, Bucket, Key, fault) ==
    LET sdk == IF Filename \notin DOMAIN fs \/ Key = <<>> THEN "Other"
               ELSE Outcome(fault, Bucket \notin DOMAIN st)
    IN [sdk |-> sdk,
        store |-> IF sdk = "ok"
                  THEN [st EXCEPT ![Bucket].objs = (Key :> fs[Filename]) @@ @]
                  ELSE st]

\* A write of data at the start of an open file.
write_at_start(old, data) == data \o SubSeq(old, Len(data) + 1, Len(old))

\* self.s3_client.download_fileobj(bucket_name, object_name, file): a client
\* error (no such bucket, no such key, denied) is reported before any byte is
\* written to the file object.
s3_download_fileobj(st, fs, Bucket, Key, path, fault) ==
    LET sdk == Outcome(fault, Bucket \notin DOMAIN st
                              \/ (Bucket \in DOMAIN st /\ Key \notin DOMAIN st[Bucket].objs))
    IN [sdk |-> sdk, store |-> st,
        files |-> IF sdk = "ok"
                  THEN [fs EXCEPT ![path] = write_at_start(@, st[Bucket].objs[Key])]
                  ELSE fs]

\* self.s3_client.delete_object(Bucket=..., Key=...)
s3_delete_object(st, Bucket, Key, fault) ==
    LET sdk == Outcome(fault, Bucket \notin DOMAIN st)
    IN [sdk |-> sdk,
        store |-> IF sdk = "ok"
                  THEN [st EXCEPT ![Bucket].objs =
                            [k \in DOMAIN @ \ {Key} |-> @[k]]]
                  ELSE st]

\* self.s3_client.list_objects_v2(Bucket=...): the response has no 'Contents'
\* key when the bucket holds no object.
s3_list_objects_v2(st, Bucket, fault) ==
    LET sdk == Outcome(fault, Bucket \notin DOMAIN st)
        objs == IF sdk = "ok" THEN st[Bucket].objs ELSE <<>>
        keys == SetToSeq(DOMAIN objs)
        contents == [i \in DOMAIN keys |->
                        [Key |-> keys[i], Size |-> Len(objs[keys[i]])]]
    IN [sdk |-> sdk, store |-> st,
        response |-> IF keys = <<>> THEN [KeyCount |-> 0]
                     ELSE [KeyCount |-> Len(keys), Contents |-> contents]]

\* self.s3_client.get_bucket_policy(Bucket=...)
s3_get_bucket_policy(st, Bucket, fault) ==
    LET sdk == Outcome(fault, Bucket \notin DOMAIN st
                              \/ (Bucket \in DOMAIN st /\ st[Bucket].policy = None))
    IN [sdk |-> sdk, store |-> st,
        result |-> IF sdk = "ok" THEN [Policy |-> st[Bucket].policy[1]]
                   ELSE [Policy |-> None]]

\* self.s3_client.put_bucket_policy(Bucket=..., Policy=...)
s3_put_bucket_policy(st, Bucket, Policy, fault) ==
    LET sdk == Outcome(fault, Bucket \notin DOMAIN st)
    IN [sdk |-> sdk,
        store |-> IF sdk = "ok" THEN [st EXCEPT ![Bucket].policy = Some(Policy)]
                  ELSE st]

----------------------------------------------------------------------------
(* Python and library operations the wrappers use. *)

\* str.rfind: the last position holding c, 0 when there is none.
rfind(p, c) ==
    IF \E i \in 1..Len(p) : p[i] = c
    THEN CHOOSE i \in 1..Len(p) : p[i] = c /\ \A j \in (i + 1)..Len(p) : p[j] # c
    ELSE 0

\* A slip: the path itself, no os.path.basename.
basename_whole_path(p) == p

\* os.path.basename(file_path)
basename(p) == SubSeq(p, rfind(p, "/") + 1, Len(p))

\* "object_name or os.path.basename(file_path)": None and '' are false.
object_name_or_basename(object_name, file_path) ==
    IF object_name # None /\ object_name[1] # <<>>
    THEN object_name[1]
    ELSE basename(file_path)

\* open(download_path, 'wb') raises OSError for '' and for a directory.
can_open_wb(path) == basename(path) # <<>>

\* A slip: mode 'r+b'/'ab' for 'wb': an existing file keeps its content.
open_no_truncate(fs, path) == fs @@ (path :> <<>>)

\* open(download_path, 'wb'): the file is created, or cut to length 0.
open_wb(fs, path) == (path :> <<>>) @@ fs

RECURSIVE json_escape(_)
json_escape(s) ==
    IF s = <<>> THEN <<>>
    ELSE (IF Head(s) \in {"\"", "\\"} THEN <<"\\", Head(s)>> ELSE <<Head(s)>>)
         \o json_escape(Tail(s))

\* json.dumps of a str
json_str(s) == <<"\"">> \o json_escape(s) \o <<"\"">>

\* json.dumps(bucket_policy): the document with every string as JSON text.
json_dumps(doc) ==
    [Version |-> json_str(doc.Version),
     Statement |-> [i \in DOMAIN doc.Statement |->
        [Sid |-> json_str(doc.Statement[i].Sid),
         Effect |-> json_str(doc.Statement[i].Effect),
         Principal |-> json_str(doc.Statement[i].Principal),
         Action |-> [j \in DOMAIN doc.Statement[i].Action |->
                        json_str(doc.Statement[i].Action[j])],
         Resource |-> json_str(doc.Statement[i].Resource)]]]

\* A slip: the f prefix left out, the braces go out as they are.
resource_arn_not_interpolated(bucket_name) ==
    <<"a", "r", "n", ":", "a", "w", "s", ":", "s", "3", ":", ":", ":">>
    \o <<"{", "b", "u", "c", "k", "e", "t", "_", "n", "a", "m", "e", "}">>
    \o <<"/", "*">>

\* f'arn:aws:s3:::{bucket_name}/*'
resource_arn(bucket_name) ==
    <<"a", "r", "n", ":", "a", "w", "s", ":", "s", "3", ":", ":", ":">>
    \o bucket_name \o <<"/", "*">>

\* The dict bucket_policy of set_bucket_policy.
bucket_policy(bucket_name) ==
    [Version |-> <<"2", "0", "2", "4", "-", "1", "0", "-", "1", "7">>,
     Statement |-> <<
        [Sid |-> <<"A", "d", "d", "P", "e", "r", "m">>,
         Effect |-> <<"A", "l", "l", "o", "w">>,
         Principal |-> <<"*">>,
         Action |-> << <<"s", "3", ":", "G", "e", "t", "O", "b", "j", "e", "c", "t">> >>,
         Resource |-> resource_arn(bucket_name)] >>]

----------------------------------------------------------------------------
(* The methods of S3Helper.  Each takes the service state st, the local    *)
(* files fs, its arguments and the fault of its call, and gives the state  *)
(* after it, the client calls it made (reqs), what the client call did     *)
(* (sdk: "notcalled", "ok", "ClientError", "Other"), what it returned      *)
(* (ret), whether an exception left it (raised) and the lines it printed.  *)

Res(st, fs, reqs, sdk, ret, raised, out) ==
    [store |-> st, files |-> fs, reqs |-> reqs, sdk |-> sdk, ret |-> ret,
     raised |-> raised, out |-> out]

\* A slip: the except clause names another exception, a ClientError leaves
\* the method.
create_bucket_uncaught(st, fs, bucket_name, region, fault) ==
    LET req == IF region = None
               THEN [api |-> "create_bucket", Bucket |-> bucket_name,
                     CreateBucketConfiguration |-> None]
               ELSE [api |-> "create_bucket", Bucket |-> bucket_name,
                     CreateBucketConfiguration |->
                         Some([LocationConstraint |-> region[1]])]
        r == s3_create_bucket(st, bucket_name, fault)
    IN CASE r.sdk = "ok" ->
              Res(r.store, fs, <<req>>, r.sdk, PyTrue, FALSE,
                  << <<"Bucket created successfully", bucket_name>> >>)
         [] OTHER -> Res(r.store, fs, <<req>>, r.sdk, PyNone, TRUE, <<>>)

\* A slip: the region is never passed on.
create_bucket_region_dropped(st, fs, bucket_name, region, fault) ==
    LET req == [api |-> "create_bucket", Bucket |-> bucket_name,
                CreateBucketConfiguration |-> None]
        r == s3_create_bucket(st, bucket_name, fault)
    IN CASE r.sdk = "ok" ->
              Res(r.store, fs, <<req>>, r.sdk, PyTrue, FALSE,
                  << <<"Bucket created successfully", bucket_name>> >>)
         [] r.sdk = "ClientError" ->
              Res(r.store, fs, <<req>>, r.sdk, PyFalse, FALSE,
                  << <<"Error creating bucket", bucket_name>> >>)
         [] OTHER -> Res(r.store, fs, <<req>>, r.sdk, PyNone, TRUE, <<>>)

create_bucket(st, fs, bucket_name, region, fault) ==
    LET req == IF region = None
               THEN [api |-> "create_bucket", Bucket |-> bucket_name,
                     CreateBucketConfiguration |-> None]
               ELSE [api |-> "create_bucket", Bucket |-> bucket_name,
                     CreateBucketConfiguration |->
                         Some([LocationConstraint |-> region[1]])]
        r == s3_create_bucket(st, bucket_name, fault)
    IN CASE r.sdk = "ok" ->
              Res(r.store, fs, <<req>>, r.sdk, PyTrue, FALSE,
                  << <<"Bucket created successfully", bucket_name>> >>)
         [] r.sdk = "ClientError" ->
              Res(r.store, fs, <<req>>, r.sdk, PyFalse, FALSE,
                  << <<"Error creating bucket", bucket_name>> >>)
         [] OTHER -> Res(r.store, fs, <<req>>, r.sdk, PyNone, TRUE, <<>>)

list_buckets(st, fs, fault) ==
    LET req == [api |-> "list_buckets"]
        r == s3_list_buckets(st, fault)
        buckets == r.response.Buckets
    IN CASE r.sdk = "ok" ->
              Res(r.store, fs, <<req>>, r.sdk, PyNone, FALSE,
                  << <<"Existing buckets:">> >>
                  \o [i \in DOMAIN buckets |-> <<" - ", buckets[i].Name>>])
         [] r.sdk = "ClientError" ->
              Res(r.store, fs, <<req>>, r.sdk, PyNone, FALSE,
                  << <<"Error listing buckets">> >>)
         [] OTHER -> Res(r.store, fs, <<req>>, r.sdk, PyNone, TRUE, <<>>)

delete_bucket(st, fs, bucket_name, fault) ==
    LET req == [api |-> "delete_bucket", Bucket |-> bucket_name]
        r == s3_delete_bucket(st, bucket_name, fault)
    IN CASE r.sdk = "ok" ->
              Res(r.store, fs, <<req>>, r.sdk, PyNone, FALSE,
                  << <<"Bucket deleted successfully", bucket_name>> >>)
         [] r.sdk = "ClientError" ->
              Res(r.store, fs, <<req>>, r.sdk, PyNone, FALSE,
                  << <<"Error deleting bucket", bucket_name>> >>)
         [] OTHER -> Res(r.store, fs, <<req>>, r.sdk, PyNone, TRUE, <<>>)

\* A slip: a failed upload is tried once more.
upload_file_retry(st, fs, file_path, bucket_name, object_name, fault) ==
    LET key == object_name_or_basename(object_name, file_path)
        req == [api |-> "upload_file", Filename |-> file_path,
                Bucket |-> bucket_name, Key |-> key]
        r1 == s3_upload_file(st, fs, file_path, bucket_name, key, fault)
        r == IF r1.sdk = "ClientError"
             THEN s3_upload_file(r1.store, fs, file_path, bucket_name, key, "none")
             ELSE r1
        reqs == IF r1.sdk = "ClientError" THEN <<req, req>> ELSE <<req>>
    IN CASE r.sdk = "ok" ->
              Res(r.store, fs, reqs, r.sdk, PyTrue, FALSE,
                  << <<"File uploaded", file_path, bucket_name, key>> >>)
         [] r.sdk = "ClientError" ->
              Res(r.store, fs, reqs, r.sdk, PyFalse, FALSE,
                  << <<"Error uploading file", file_path>> >>)
         [] OTHER -> Res(r.store, fs, reqs, r.sdk, PyNone, TRUE, <<>>)

upload_file(st, fs, file_path, bucket_name, object_name, fault) ==
    LET key == object_name_or_basename(object_name, file_path)
        req == [api |-> "upload_file", Filename |-> file_path,
                Bucket |-> bucket_name, Key |-> key]
        r == s3_upload_file(st, fs, file_path, bucket_name, key, fault)
    IN CASE r.sdk = "ok" ->
              Res(r.store, fs, <<req>>, r.sdk, PyTrue, FALSE,
                  << <<"File uploaded", file_path, bucket_name, key>> >>)
         [] r.sdk = "ClientError" ->
              Res(r.store, fs, <<req>>, r.sdk, PyFalse, FALSE,
                  << <<"Error uploading file", file_path>> >>)
         [] OTHER -> Res(r.store, fs, <<req>>, r.sdk, PyNone, TRUE, <<>>)

\* A slip: the file is opened only once the service has answered.
download_file_open_after(st, fs, bucket_name, object_name, download_path, fault) ==
    LET req == [api |-> "download_fileobj", Bucket |-> bucket_name,
                Key |-> object_name, Fileobj |-> download_path]
        probe == s3_download_fileobj(st, open_wb(fs, download_path), bucket_name,
                                     object_name, download_path, fault)
    IN CASE ~can_open_wb(download_path) ->
              Res(st, fs, <<>>, "notcalled", PyNone, TRUE, <<>>)
         [] probe.sdk = "ok" ->
              Res(probe.store, probe.files, <<req>>, probe.sdk, PyNone, FALSE,
                  << <<"File downloaded", object_name, bucket_name, download_path>> >>)
         [] probe.sdk = "ClientError" ->
              Res(st, fs, <<req>>, probe.sdk, PyNone, FALSE,
                  << <<"Error downloading file", object_name>> >>)
         [] OTHER -> Res(st, fs, <<req>>, probe.sdk, PyNone, TRUE, <<>>)

download_file(st, fs, bucket_name, object_name, download_path, fault) ==
    IF ~can_open_wb(download_path)
    THEN Res(st, fs, <<>>, "notcalled", PyNone, TRUE, <<>>)
    ELSE
    LET opened == open_wb(fs, download_path)
        req == [api |-> "download_fileobj", Bucket |-> bucket_name,
                Key |-> object_name, Fileobj |-> download_path]
        r == s3_download_fileobj(st, opened, bucket_name, object_name,
                                 download_path, fault)
    IN CASE r.sdk = "ok" ->
              Res(r.store, r.files, <<req>>, r.sdk, PyNone, FALSE,
                  << <<"File downloaded", object_name, bucket_name, download_path>> >>)
         [] r.sdk = "ClientError" ->
              Res(r.store, r.files, <<req>>, r.sdk, PyNone, FALSE,
                  << <<"Error downloading file", object_name>> >>)
         [] OTHER -> Res(r.store, r.files, <<req>>, r.sdk, PyNone, TRUE, <<>>)

delete_object(st, fs, bucket_name, object_name, fault) ==
    LET req == [api |-> "delete_object", Bucket |-> bucket_name, Key |-> object_name]
        r == s3_delete_object(st, bucket_name, object_name, fault)
    IN CASE r.sdk = "ok" ->
              Res(r.store, fs, <<req>>, r.sdk, PyNone, FALSE,
                  << <<"Object deleted", object_name, bucket_name>> >>)
         [] r.sdk = "ClientError" ->
              Res(r.store, fs, <<req>>, r.sdk, PyNone, FALSE,
                  << <<"Error deleting object", object_name>> >>)
         [] OTHER -> Res(r.store, fs, <<req>>, r.sdk, PyNone, TRUE, <<>>)

\* A slip: no else, the last line is printed after the loop too.
object_lines_no_else(response) ==
    (IF "Contents" \in DOMAIN response
     THEN [i \in DOMAIN response.Contents |->
             <<" - ", response.Contents[i].Key, response.Contents[i].Size>>]
     ELSE <<>>)
    \o << <<"No objects found in the bucket.">> >>

\* The lines list_objects prints after the header.
object_lines(response) ==
    IF "Contents" \in DOMAIN response
    THEN [i \in DOMAIN response.Contents |->
            <<" - ", response.Contents[i].Key, response.Contents[i].Size>>]
    ELSE << <<"No objects found in the bucket.">> >>

list_objects(st, fs, bucket_name, fault) ==
    LET req == [api |-> "list_objects_v2", Bucket |-> bucket_name]
        r == s3_list_objects_v2(st, bucket_name, fault)
    IN CASE r.sdk = "ok" ->
              Res(r.store, fs, <<req>>, r.sdk, PyNone, FALSE,
                  << <<"Objects in bucket", bucket_name>> >>
                  \o object_lines(r.response))
         [] r.sdk = "ClientError" ->
              Res(r.store, fs, <<req>>, r.sdk, PyNone, FALSE,
                  << <<"Error listing objects in bucket", bucket_name>> >>)
         [] OTHER -> Res(r.store, fs, <<req>>, r.sdk, PyNone, TRUE, <<>>)

get_bucket_policy(st, fs, bucket_name, fault) ==
    LET req == [api |-> "get_bucket_policy", Bucket |-> bucket_name]
        r == s3_get_bucket_policy(st, bucket_name, fault)
    IN CASE r.sdk = "ok" ->
              Res(r.store, fs, <<req>>, r.sdk, PyNone, FALSE,
                  << <<"Bucket policy for", bucket_name, r.result.Policy>> >>)
         [] r.sdk = "ClientError" ->
              Res(r.store, fs, <<req>>, r.sdk, PyNone, FALSE,
                  << <<"Error retrieving policy for bucket", bucket_name>> >>)
         [] OTHER -> Res(r.store, fs, <<req>>, r.sdk, PyNone, TRUE, <<>>)

set_bucket_policy(st, fs, bucket_name, fault) ==
    LET policy == json_dumps(bucket_policy(bucket_name))
        req == [api |-> "put_bucket_policy", Bucket |-> bucket_name,
                Policy |-> policy]
        r == s3_put_bucket_policy(st, bucket_name, policy, fault)
    IN CASE r.sdk = "ok" ->
              Res(r.store, fs, <<req>>, r.sdk, PyNone, FALSE,
                  << <<"Public read policy set for bucket", bucket_name>> >>)
         [] r.sdk = "ClientError" ->
              Res(r.store, fs, <<req>>, r.sdk, PyNone, FALSE,
                  << <<"Error setting policy for bucket", bucket_name>> >>)
         [] OTHER -> Res(r.store, fs, <<req>>, r.sdk, PyNone, TRUE, <<>>)

----------------------------------------------------------------------------
(* State.  store: the account's buckets, each with its objects and policy. *)
(* files: the local files.  last: the last call of a method (its name and  *)
(* arguments, what it did, and store and files as they were before it).    *)
(* pc: the statement of __main__ to run next ("lib" when the methods are   *)
(* called by another caller).  calls: the calls __main__ has made.         *)

NoCall ==
    [op |-> "none", args |-> <<>>, reqs |-> <<>>, sdk |-> "notcalled",
     ret |-> PyNone, raised |-> FALSE, out |-> <<>>,
     store0 |-> <<>>, files0 |-> <<>>]

Call(op, args, r) ==
    /\ store' = r.store
    /\ files' = r.files
    /\ last' = [op |-> op, args |-> args, reqs |-> r.reqs, sdk |-> r.sdk,
                ret |-> r.ret, raised |-> r.raised, out |-> r.out,
                store0 |-> store, files0 |-> files]

CreateBucket(bucket_name, region, fault) ==
    /\ Call("create_bucket", <<bucket_name, region>>,
            create_bucket(store, files, bucket_name, region, fault))
    /\ UNCHANGED <<pc, calls>>

ListBuckets(fault) ==
    /\ Call("list_buckets", <<>>, list_buckets(store, files, fault))
    /\ UNCHANGED <<pc, calls>>

DeleteBucket(bucket_name, fault) ==
    /\ Call("delete_bucket", <<bucket_name>>,
            delete_bucket(store, files, bucket_name, fault))
    /\ UNCHANGED <<pc, calls>>

UploadFile(file_path, bucket_name, object_name, fault) ==
    /\ Call("upload_file", <<file_path, bucket_name, object_name>>,
            upload_file(store, files, file_path, bucket_name, object_name, fault))
    /\ UNCHANGED <<pc, calls>>

DownloadFile(bucket_name, object_name, download_path, fault) ==
    /\ Call("download_file", <<bucket_name, object_name, download_path>>,
            download_file(store, files, bucket_name, object_name, download_path, fault))
    /\ UNCHANGED <<pc, calls>>

DeleteObject(bucket_name, object_name, fault) ==
    /\ Call("delete_object", <<bucket_name, object_name>>,
            delete_object(store, files, bucket_name, object_name, fault))
    /\ UNCHANGED <<pc, calls>>

ListObjects(bucket_name, fault) ==
    /\ Call("list_objects", <<bucket_name>>,
            list_objects(store, files, bucket_name, fault))
    /\ UNCHANGED <<pc, calls>>

GetBucketPolicy(bucket_name, fault) ==
    /\ Call("get_bucket_policy", <<bucket_name>>,
            get_bucket_policy(store, files, bucket_name, fault))
    /\ UNCHANGED <<pc, calls>>

SetBucketPolicy(bucket_name, fault) ==
    /\ Call("set_bucket_policy", <<bucket_name>>,
            set_bucket_policy(store, files, bucket_name, fault))
    /\ UNCHANGED <<pc, calls>>

----------------------------------------------------------------------------
(* Spec: a caller of all nine methods, on two buckets, one local file and  *)
(* two keys.                                                               *)

LibBucket == <<"b">>
LibBuckets == {LibBucket, <<"\"">>}
LibFile == <<"f">>
LibKey == <<"k">>
LibContent == <<1>>
Regions == {None, Some(<<>>), Some(main_region)}
ObjectNames == {None, Some(<<>>), Some(LibKey)}
LibKeys == {LibKey, basename(LibFile)}
LibDownloadPaths == {LibFile, <<>>}

Init ==
    /\ store = <<>>
    /\ files = (LibFile :> LibContent)
    /\ last = NoCall
    /\ pc = "lib"
    /\ calls = <<>>

Next ==
    \/ \E b \in LibBuckets, r \in Regions, f \in Faults : CreateBucket(b, r, f)
    \/ \E f \in Faults : ListBuckets(f)
    \/ \E b \in LibBuckets, f \in Faults : DeleteBucket(b, f)
    \/ \E b \in LibBuckets, o \in ObjectNames, f \in Faults :
            UploadFile(LibFile, b, o, f)
    \/ \E b \in LibBuckets, k \in LibKeys, p \in LibDownloadPaths, f \in Faults :
            DownloadFile(b, k, p, f)
    \/ \E b \in LibBuckets, k \in LibKeys, f \in Faults : DeleteObject(b, k, f)
    \/ \E b \in LibBuckets, f \in Faults : ListObjects(b, f)
    \/ \E b \in LibBuckets, f \in Faults : GetBucketPolicy(b, f)
    \/ \E b \in LibBuckets, f \in Faults : SetBucketPolicy(b, f)

Spec == Init /\ [][Next]_vars

----------------------------------------------------------------------------
(* UploadSpec: upload_file on every path, with one local file somewhere.   *)

UploadInit ==
    /\ store = (LibBucket :> NewBucket)
    /\ \E p \in Paths : /\ basename(p) # <<>>
                        /\ files = (p :> LibContent)
    /\ last = NoCall
    /\ pc = "lib"
    /\ calls = <<>>

UploadNext ==
    \E p \in Paths, b \in LibBuckets, o \in ObjectNames, f \in Faults :
        UploadFile(p, b, o, f)

UploadSpec == UploadInit /\ [][UploadNext]_vars

----------------------------------------------------------------------------
(* DownloadSpec: download_file of an object of any content onto a path     *)
(* that holds any content, or no file.                                     *)

DownloadPaths == {LibFile, <<>>, <<"f", "/">>}

DownloadInit ==
    /\ \E c \in Contents :
          store = (LibBucket :> [objs |-> (LibKey :> c), policy |-> None])
    /\ \E prior \in {None} \cup {Some(c) : c \in Contents} :
          files = IF prior = None THEN <<>> ELSE (LibFile :> prior[1])
    /\ last = NoCall
    /\ pc = "lib"
    /\ calls = <<>>

DownloadNext ==
    \E b \in LibBuckets, k \in LibKeys, p \in DownloadPaths, f \in Faults :
        DownloadFile(b, k, p, f)

DownloadSpec == DownloadInit /\ [][DownloadNext]_vars

----------------------------------------------------------------------------
(* BucketSpec: the bucket methods on every bucket name, in an account that *)
(* is empty or holds a bucket with a policy somebody else attached.        *)

foreign_policy ==
    json_dumps(
        [Version |-> <<"2", "0", "1", "2", "-", "1", "0", "-", "1", "7">>,
         Statement |-> <<
            [Sid |-> <<"D">>, Effect |-> <<"D", "e", "n", "y">>,
             Principal |-> <<"*">>, Action |-> << <<"s", "3", ":", "*">> >>,
             Resource |-> <<"*">>],
            [Sid |-> <<"A">>, Effect |-> <<"A", "l", "l", "o", "w">>,
             Principal |-> <<"*">>, Action |-> << <<"s", "3", ":", "*">> >>,
             Resource |-> <<"*">>] >>])

BucketInit ==
    /\ store \in {<<>>} \cup
                 {(b :> [objs |-> <<>>, policy |-> Some(foreign_policy)]) :
                     b \in BucketNames}
    /\ files = <<>>
    /\ last = NoCall
    /\ pc = "lib"
    /\ calls = <<>>

BucketNext ==
    \/ \E b \in BucketNames, r \in Regions, f \in Faults : CreateBucket(b, r, f)
    \/ \E f \in Faults : ListBuckets(f)
    \/ \E b \in BucketNames, f \in Faults : DeleteBucket(b, f)
    \/ \E b \in BucketNames, f \in Faults : GetBucketPolicy(b, f)
    \/ \E b \in BucketNames, f \in Faults : SetBucketPolicy(b, f)

BucketSpec == BucketInit /\ [][BucketNext]_vars

----------------------------------------------------------------------------
(* MainSpec: the __main__ script.  pc names the line of the next call.     *)

\* A statement of __main__: the call, then the next statement, or the end of
\* the process when an exception left the call.
MainCall(line, nextline, op, args, r) ==
    /\ pc = line
    /\ Call(op, args, r)
    /\ calls' = Append(calls, [op |-> op, args |-> args, sdk |-> r.sdk])
    /\ pc' = IF r.raised THEN "crashed" ELSE nextline

Main161(fault) ==
    MainCall("L161", "L164", "list_buckets", <<>>,
             list_buckets(store, files, fault))

\* A slip: the listing after the creation is left out.
Main164_skips_list(fault) ==
    MainCall("L164", "L170", "create_bucket", <<main_bucket_name, Some(main_region)>>,
             create_bucket(store, files, main_bucket_name, Some(main_region), fault))

\* A slip: the script ends when create_bucket returns False.
Main164_exit_on_failure(fault) ==
    LET r == create_bucket(store, files, main_bucket_name, Some(main_region), fault)
    IN MainCall("L164", IF r.ret = PyFalse THEN "done" ELSE "L167", "create_bucket",
                <<main_bucket_name, Some(main_region)>>, r)

Main164(fault) ==
    MainCall("L164", "L167", "create_bucket", <<main_bucket_name, Some(main_region)>>,
             create_bucket(store, files, main_bucket_name, Some(main_region), fault))

Main167(fault) ==
    MainCall("L167", "L170", "list_buckets", <<>>,
             list_buckets(store, files, fault))

Main170(fault) ==
    MainCall("L170", "L173", "upload_file", <<main_file, main_bucket_name, None>>,
             upload_file(store, files, main_file, main_bucket_name, None, fault))

Main173(fault) ==
    MainCall("L173", "L176", "list_objects", <<main_bucket_name>>,
             list_objects(store, files, main_bucket_name, fault))

Main176(fault) ==
    MainCall("L176", "L179", "download_file",
             <<main_bucket_name, main_file, main_download_path>>,
             download_file(store, files, main_bucket_name, main_file,
                           main_download_path, fault))

Main179(fault) ==
    MainCall("L179", "L182", "delete_object", <<main_bucket_name, main_file>>,
             delete_object(store, files, main_bucket_name, main_file, fault))

Main182(fault) ==
    MainCall("L182", "L185", "list_objects", <<main_bucket_name>>,
             list_objects(store, files, main_bucket_name, fault))

Main185(fault) ==
    MainCall("L185", "L188", "delete_bucket", <<main_bucket_name>>,
             delete_bucket(store, files, main_bucket_name, fault))

Main188(fault) ==
    MainCall("L188", "done", "list_buckets", <<>>,
             list_buckets(store, files, fault))

MainInit ==
    /\ store \in {<<>>, (main_bucket_name :> NewBucket)}
    /\ \E src \in {None} \cup {Some(c) : c \in Contents},
          dst \in {None, Some(LibContent)} :
          files = (IF src = None THEN <<>> ELSE (main_file :> src[1]))
                  @@ (IF dst = None THEN <<>> ELSE (main_download_path :> dst[1]))
    /\ last = NoCall
    /\ pc = "L161"
    /\ calls = <<>>

MainNext ==
    \/ \E f \in Faults : Main161(f)
    \/ \E f \in Faults : Main164(f)
    \/ \E f \in Faults : Main167(f)
    \/ \E f \in Faults : Main170(f)
    \/ \E f \in Faults : Main173(f)
    \/ \E f \in Faults : Main176(f)
    \/ \E f \in Faults : Main179(f)
    \/ \E f \in Faults : Main182(f)
    \/ \E f \in Faults : Main185(f)
    \/ \E f \in Faults : Main188(f)

\* The process runs its statements one after another until it ends.
MainSpec == MainInit /\ [][MainNext]_vars /\ WF_vars(MainNext)

----------------------------------------------------------------------------
(* Properties. *)

Range(q) == {q[i] : i \in DOMAIN q}

\* C1: whenever the client call of a method reports a client error, the
\* method returns to its caller with no exception; create_bucket and
\* upload_file then return False, and they return True only when the client
\* call reported no error.
C1_ClientErrorIsHandled ==
    /\ last.sdk = "ClientError" =>
          /\ ~last.raised
          /\ last.op \in {"create_bucket", "upload_file"} => last.ret = PyFalse
    /\ last.ret = PyTrue =>
          /\ last.op \in {"create_bucket", "upload_file"}
          /\ last.sdk = "ok"
    /\ last.op \notin {"create_bucket", "upload_file"} => last.ret = PyNone

C1_Witness ==
    /\ last.op = "upload_file"
    /\ last.sdk = "ClientError"
    /\ last.ret = PyFalse
    /\ ~last.raised

\* k is the part of path p after its last separator.
IsBaseNameOf(k, p) ==
    \E i \in 0..Len(p) :
        /\ k = SubSeq(p, i + 1, Len(p))
        /\ "/" \notin Range(k)
        /\ i = 0 \/ p[i] = "/"

\* C2: upload_file sends one upload whose key is the base name of the local
\* path when no object name is given, and the object name itself when a
\* non-empty one is given.
C2_UploadKey ==
    last.op = "upload_file" =>
        LET file_path == last.args[1]
            object_name == last.args[3]
        IN /\ Len(last.reqs) = 1
           /\ last.reqs[1].Filename = file_path
           /\ last.reqs[1].Bucket = last.args[2]
           /\ object_name = None => IsBaseNameOf(last.reqs[1].Key, file_path)
           /\ (object_name # None /\ object_name[1] # <<>>) =>
                  last.reqs[1].Key = object_name[1]

C2_Witness ==
    /\ last.op = "upload_file"
    /\ last.args[1] = <<"f", "/", "f">>
    /\ last.args[3] = None
    /\ last.sdk = "ok"
    /\ last.reqs[1].Key = <<"f">>
    /\ <<"f">> \in DOMAIN store[last.args[2]].objs

\* C3: create_bucket issues exactly one create request, for the name given,
\* with no location constraint when region is None and with the region as
\* the location constraint otherwise.
C3_CreateRequest ==
    last.op = "create_bucket" =>
        LET region == last.args[2]
        IN /\ Len(last.reqs) = 1
           /\ last.reqs[1].api = "create_bucket"
           /\ last.reqs[1].Bucket = last.args[1]
           /\ region = None => last.reqs[1].CreateBucketConfiguration = None
           /\ region # None =>
                  last.reqs[1].CreateBucketConfiguration =
                      Some([LocationConstraint |-> region[1]])

C3_Witness ==
    /\ last.op = "create_bucket"
    /\ last.args[2] = Some(main_region)
    /\ last.sdk = "ok"
    /\ last.reqs[1].CreateBucketConfiguration =
           Some([LocationConstraint |-> main_region])
    /\ last.args[1] \in DOMAIN store

RECURSIVE json_unescape(_)
json_unescape(t) ==
    IF t = <<>> THEN <<>>
    ELSE IF Head(t) = "\\" /\ Len(t) >= 2
         THEN <<t[2]>> \o json_unescape(SubSeq(t, 3, Len(t)))
         ELSE <<Head(t)>> \o json_unescape(Tail(t))

\* The string a JSON text stands for, as the service reads it.
json_loads_str(t) == json_unescape(SubSeq(t, 2, Len(t) - 1))

\* C4: set_bucket_policy sends one put-policy request for the bucket given;
\* its document has exactly one statement: Allow, principal "*", actions
\* ["s3:GetObject"], resource "arn:aws:s3:::" + bucket + "/*", whatever
\* policy the bucket had; on success that document is the bucket's policy.
C4_PolicyDocument ==
    last.op = "set_bucket_policy" =>
        LET bucket == last.args[1]
            doc == last.reqs[1].Policy
        IN /\ Len(last.reqs) = 1
           /\ last.reqs[1].api = "put_bucket_policy"
           /\ last.reqs[1].Bucket = bucket
           /\ Len(doc.Statement) = 1
           /\ json_loads_str(doc.Statement[1].Effect) = <<"A", "l", "l", "o", "w">>
           /\ json_loads_str(doc.Statement[1].Principal) = <<"*">>
           /\ Len(doc.Statement[1].Action) = 1
           /\ json_loads_str(doc.Statement[1].Action[1]) =
                  <<"s", "3", ":", "G", "e", "t", "O", "b", "j", "e", "c", "t">>
           /\ json_loads_str(doc.Statement[1].Resource) =
                  <<"a", "r", "n", ":", "a", "w", "s", ":", "s", "3", ":", ":", ":">>
                  \o bucket \o <<"/", "*">>
           /\ last.sdk = "ok" => store[bucket].policy = Some(doc)

C4_Witness ==
    /\ last.op = "set_bucket_policy"
    /\ last.sdk = "ok"
    /\ "\"" \in Range(last.args[1])
    /\ last.store0[last.args[1]].policy = Some(foreign_policy)
    /\ store[last.args[1]].policy # Some(foreign_policy)

\* C5: after a download_file that succeeded, the local file holds exactly
\* the bytes of the object, whatever the path held before.
C5_DownloadContent ==
    (last.op = "download_file" /\ last.sdk = "ok") =>
        /\ ~last.raised
        /\ last.args[3] \in DOMAIN files
        /\ files[last.args[3]] = last.store0[last.args[1]].objs[last.args[2]]

C5_Witness ==
    /\ last.op = "download_file"
    /\ last.sdk = "ok"
    /\ last.args[3] \in DOMAIN last.files0
    /\ Len(last.files0[last.args[3]]) > Len(files[last.args[3]])
    /\ Len(files[last.args[3]]) > 0
    /\ files[last.args[3]] # SubSeq(last.files0[last.args[3]], 1, Len(files[last.args[3]]))

\* C6: list_objects of an existing bucket prints the header and then, for a
\* bucket with no object, only the "no objects" line; for a bucket with
\* objects, one line with key and size per object and no "no objects" line.
C6_ListObjectsOutput ==
    (last.op = "list_objects" /\ last.sdk = "ok") =>
        LET bucket == last.args[1]
            objs == last.store0[bucket].objs
        IN /\ ~last.raised
           /\ last.out[1] = <<"Objects in bucket", bucket>>
           /\ IF DOMAIN objs = {}
              THEN last.out = << <<"Objects in bucket", bucket>>,
                                 <<"No objects found in the bucket.">> >>
              ELSE /\ Len(last.out) = 1 + Cardinality(DOMAIN objs)
                   /\ \A k \in DOMAIN objs :
                        \E i \in 2..Len(last.out) :
                            last.out[i] = <<" - ", k, Len(objs[k])>>
                   /\ \A i \in 1..Len(last.out) :
                        last.out[i][1] # "No objects found in the bucket."

C6_Witness ==
    /\ last.op = "list_objects"
    /\ last.sdk = "ok"
    /\ Cardinality(DOMAIN store[last.args[1]].objs) = 2
    /\ Len(last.out) = 3

\* What a list_objects call printed for an empty bucket.
C6_WitnessEmpty ==
    /\ last.op = "list_objects"
    /\ last.sdk = "ok"
    /\ DOMAIN store[last.args[1]].objs = {}
    /\ Len(last.out) = 2

\* The order of calls the claim C7 states, which starts with the creation.
ClaimedOrder ==
    <<"create_bucket", "list_buckets", "upload_file", "list_objects",
      "download_file", "delete_object", "list_objects", "delete_bucket",
      "list_buckets">>

\* The order of the calls in __main__.
MainOrder == <<"list_buckets">> \o ClaimedOrder

MainLines ==
    <<"L161", "L164", "L167", "L170", "L173", "L176", "L179", "L182", "L185",
      "L188", "done">>

Ops(cs) == [i \in DOMAIN cs |-> cs[i].op]

\* C7 as stated: the calls made so far are the first ones of the order that
\* starts with create_bucket.
C7_AsClaimed ==
    /\ Len(calls) <= Len(ClaimedOrder)
    /\ Ops(calls) = SubSeq(ClaimedOrder, 1, Len(calls))

\* C7, amended: the script first lists the buckets and then makes the calls
\* of the stated order, one after the other: the calls made so far are the
\* first ones of list, create, list, upload, list objects, download, delete
\* object, list objects, delete bucket, list; the next statement is the one
\* after the last call made, unless an exception ended the script.
C7_MainOrder ==
    /\ Len(calls) <= Len(MainOrder)
    /\ Ops(calls) = SubSeq(MainOrder, 1, Len(calls))
    /\ pc # "crashed" => pc = MainLines[Len(calls) + 1]
    /\ pc = "crashed" => last.raised

C7_Witness ==
    /\ pc = "done"
    /\ Ops(calls) = MainOrder

\* The calls of __main__ with their arguments.
MainCalls ==
    << [op |-> "list_buckets", args |-> <<>>],
       [op |-> "create_bucket", args |-> <<main_bucket_name, Some(main_region)>>],
       [op |-> "list_buckets", args |-> <<>>],
       [op |-> "upload_file", args |-> <<main_file, main_bucket_name, None>>],
       [op |-> "list_objects", args |-> <<main_bucket_name>>],
       [op |-> "download_file",
        args |-> <<main_bucket_name, main_file, main_download_path>>],
       [op |-> "delete_object", args |-> <<main_bucket_name, main_file>>],
       [op |-> "list_objects", args |-> <<main_bucket_name>>],
       [op |-> "delete_bucket", args |-> <<main_bucket_name>>],
       [op |-> "list_buckets", args |-> <<>>] >>

OpsArgs(cs) == [i \in DOMAIN cs |-> [op |-> cs[i].op, args |-> cs[i].args]]

\* C8: a call of a method makes at most one client call; when that call
\* reports a client error it is the only one made (no retry, nothing to undo
\* it) and the service's state is what that one request left.
C8_OneRequest ==
    /\ Len(last.reqs) <= 1
    /\ last.sdk = "ClientError" =>
          /\ Len(last.reqs) = 1
          /\ store = last.store0

C8_Witness ==
    /\ last.op = "upload_file"
    /\ last.sdk = "ClientError"
    /\ last.args[2] \in DOMAIN store
    /\ Len(last.reqs) = 1

\* C9: client errors never stop the script: it ends early only on an
\* exception that is not a client error; when it ends normally it has made
\* all its calls, with their arguments, whichever of them failed; and it
\* does end.
C9_MainRunsThrough ==
    /\ [](pc = "crashed" => (last.raised /\ last.sdk # "ClientError"))
    /\ [](pc = "done" => OpsArgs(calls) = MainCalls)
    /\ <>(pc \in {"done", "crashed"})

C9_Witness ==
    /\ pc = "done"
    /\ Len(calls) = Len(MainCalls)
    /\ \A i \in 1..Len(calls) : calls[i].sdk = "ClientError"

\* C10: when the client call of download_file reports a client error, the
\* method returns with no exception and the local file exists and is empty.
C10_FailedDownloadEmptiesFile ==
    (last.op = "download_file" /\ last.sdk = "ClientError") =>
        /\ ~last.raised
        /\ last.args[3] \in DOMAIN files
        /\ files[last.args[3]] = <<>>

C10_Witness ==
    /\ last.op = "download_file"
    /\ last.sdk = "ClientError"
    /\ last.args[3] \in DOMAIN last.files0
    /\ last.files0[last.args[3]] # <<>>
    /\ files[last.args[3]] = <<>>

====
